---- MODULE Spec2Model ----
(***************************************************************************)
(* Model of src/index.js: search for adjacent duplicate comments in a      *)
(* board topic and their deletion.                                         *)
(*                                                                         *)
(* Strings are sequences of UTF-16 code units (naturals), so that          *)
(* normalizeText, attsHash and the default Array.prototype.sort order are  *)
(* computed as the JavaScript computes them.                               *)
(*                                                                         *)
(* The module holds these specifications over one set of variables:        *)
(*   SpecPlan   - iterAsc driven by planDeletionsAsc, with a small page    *)
(*   SpecIter   - the same with the page of the source and long topics     *)
(*   SpecRetry  - one call of withRetries                                  *)
(*   SpecPMap   - one call of pMap with an arbitrary asynchronous mapper   *)
(*   SpecDelete - one call of deleteBatch (pMap + withRetries per item)    *)
(*   SpecMain   - one run of main, from sanityCheck to the process exit    *)
(*   SpecText   - normalizeText applied to a string and to its result      *)
(*   SpecAtts   - attsHash applied to a list and to a permutation of it    *)
(***************************************************************************)
EXTENDS Integers, Sequences, FiniteSets, TLC

\* An optional value (undefined or null in the source) is a sequence of
\* length 0 or 1: None when absent, Some(v) when present.
None == <<>>

Some(v) == <<v>>

\* An absent string: no string holds this code unit.
NoStr == <<-1>>

Range(s) == { s[k] : k \in 1..Len(s) }

Min(a, b) == IF a <= b THEN a ELSE b

Max(a, b) == IF a >= b THEN a ELSE b

(***************************************************************************)
(* Bounds of the model.                                                    *)
(***************************************************************************)

\* Longest topic (number of comments held by the remote service).
MaxThread == 3

\* Page size of iterAsc in SpecPlan and SpecMain: a small page, so that
\* page boundaries fall inside MaxThread comments. SpecIter runs iterAsc
\* with the page of the source.
ScaledPage == 2

\* Line 176: const page = 100.
page == 100

\* How many times the remote service may answer a page request with items
\* it has already returned (an overlapping page).
MaxRepeat == 1

(***************************************************************************)
(* Code units used by the normalizers.                                     *)
(***************************************************************************)

TAB == 9

NL == 10

SP == 32

NBSP == 160

ZWSP == 8203

ZWNJ == 8204

ZWJ == 8205

BOM == 65279

COLON == 58

BAR == 124

ChA == 65

ChZ == 90

CaseShift == 32

Digit0 == 48

\* Characters matched by \s in a JavaScript regular expression and removed
\* by String.prototype.trim, restricted to the code units the model uses
\* (TAB, LF, VT, FF, CR, SPACE, NBSP, BOM).
IsSpace(c) == c \in {TAB, NL, 11, 12, 13, SP, NBSP, BOM}

(***************************************************************************)
(* normalizeText, src/index.js:89-97, one operator per chained call.       *)
(***************************************************************************)

\* .replace(/\u00A0/g, ' ')
replaceNbsp(s) == [k \in 1..Len(s) |-> IF s[k] = NBSP THEN SP ELSE s[k]]

\* .toLowerCase(), on the ASCII letters
toLowerCase(s) ==
    [k \in 1..Len(s) |-> IF s[k] >= ChA /\ s[k] <= ChZ THEN s[k] + CaseShift ELSE s[k]]

IsZeroWidth(c) == c \in {ZWSP, ZWNJ, ZWJ, BOM}

\* .replace(/[\u200B\u200C\u200D\uFEFF]/g, '')
stripZeroWidth(s) == SelectSeq(s, LAMBDA c : ~IsZeroWidth(c))

IsBlank(c) == c \in {SP, TAB}

\* .replace(/[ \t]+/g, ' ')
RECURSIVE collapseBlanks(_)
collapseBlanks(s) ==
    IF s = <<>> THEN <<>>
    ELSE IF IsBlank(s[1])
         THEN IF Len(s) >= 2 /\ IsBlank(s[2])
              THEN collapseBlanks(Tail(s))
              ELSE <<SP>> \o collapseBlanks(Tail(s))
         ELSE <<s[1]>> \o collapseBlanks(Tail(s))

\* Length of the longest prefix of s made of \s characters.
RECURSIVE spaceRun(_)
spaceRun(s) ==
    IF s # <<>> /\ IsSpace(s[1]) THEN 1 + spaceRun(Tail(s)) ELSE 0

\* .replace(/\s*\n\s*/g, '\n'): a maximal run of \s that holds a line feed
\* is matched whole (greedy \s* backtracks to the last line feed of the run)
\* and becomes one line feed; a run without a line feed is not matched.
RECURSIVE collapseNewlines(_)
collapseNewlines(s) ==
    IF s = <<>> THEN <<>>
    ELSE LET r == spaceRun(s) IN
         IF r = 0 THEN <<s[1]>> \o collapseNewlines(Tail(s))
         ELSE IF NL \in Range(SubSeq(s, 1, r))
              THEN <<NL>> \o collapseNewlines(SubSeq(s, r + 1, Len(s)))
              ELSE SubSeq(s, 1, r) \o collapseNewlines(SubSeq(s, r + 1, Len(s)))

RECURSIVE trimStart(_)
trimStart(s) == IF s # <<>> /\ IsSpace(s[1]) THEN trimStart(Tail(s)) ELSE s

RECURSIVE trimEnd(_)
trimEnd(s) ==
    IF s # <<>> /\ IsSpace(s[Len(s)]) THEN trimEnd(SubSeq(s, 1, Len(s) - 1)) ELSE s

\* .trim()
trim(s) == trimEnd(trimStart(s))

\* Mutant of normalizeText: trim is the first call of the chain.
normalizeText_TrimFirst(s) ==
    LET s0 == IF s = NoStr THEN <<>> ELSE s
    IN  collapseNewlines(collapseBlanks(stripZeroWidth(toLowerCase(replaceNbsp(trim(s0))))))

\* (s || ''): an absent text is the empty string.
normalizeText(s) ==
    LET s0 == IF s = NoStr THEN <<>> ELSE s
    IN  trim(collapseNewlines(collapseBlanks(stripZeroWidth(toLowerCase(replaceNbsp(s0))))))

(***************************************************************************)
(* attsHash, src/index.js:103-124.                                         *)
(* An attachment is a record [type, obj]: type is a string, or NoStr when  *)
(* the attachment is null or has no type; obj is a[a.type], None when      *)
(* absent, else Some of a record [owner_id, id, sticker_id, url, link]     *)
(* (optional integers for the identifiers, strings or NoStr for url and    *)
(* link).                                                                  *)
(***************************************************************************)

\* String(n) for an integer n: its decimal digits, '-' first when negative.
RECURSIVE digits(_)
digits(n) == IF n < 10 THEN <<Digit0 + n>> ELSE digits(n \div 10) \o <<Digit0 + (n % 10)>>

String(n) == IF n < 0 THEN <<45>> \o digits(0 - n) ELSE digits(n)

\* 'unknown:'
Unknown == <<117, 110, 107, 110, 111, 119, 110, COLON>>

\* 'st:'
StTag == <<115, 116, COLON>>

\* A string that is absent or empty is falsy.
Falsy(str) == str = NoStr \/ str = <<>>

\* The callback of atts.map(...), lines 107-118.
attKey(a) ==
    LET t == a.type IN
    IF Falsy(t) THEN Unknown
    ELSE LET has == a.obj # None
             obj == a.obj[1]
             o == IF has /\ obj.owner_id # None THEN String(obj.owner_id[1]) ELSE <<>>
             id == IF has /\ obj.id # None THEN String(obj.id[1]) ELSE <<>>
             stickerId == IF has /\ obj.sticker_id # None
                          THEN StTag \o String(obj.sticker_id[1]) ELSE <<>>
             url == IF has /\ ~Falsy(obj.url) THEN obj.url
                    ELSE IF has /\ ~Falsy(obj.link) THEN obj.link
                    ELSE <<>>
         IN  t \o <<COLON>> \o o \o <<COLON>> \o id \o <<COLON>> \o stickerId
               \o <<COLON>> \o url

\* The order of Array.prototype.sort() without a comparator: strings by
\* their UTF-16 code units, a proper prefix first.
RECURSIVE strLess(_, _)
strLess(x, y) ==
    IF y = <<>> THEN FALSE
    ELSE IF x = <<>> THEN TRUE
    ELSE IF x[1] # y[1] THEN x[1] < y[1]
    ELSE strLess(Tail(x), Tail(y))

RECURSIVE insertSorted(_, _)
insertSorted(x, s) ==
    IF s = <<>> THEN <<x>>
    ELSE IF strLess(s[1], x) THEN <<s[1]>> \o insertSorted(x, Tail(s))
    ELSE <<x>> \o s

\* Mutant of sort: the keys stay in the order of the list.
sort_KeepsOrder(s) == s

\* .sort()
RECURSIVE sort(_)
sort(s) == IF s = <<>> THEN <<>> ELSE insertSorted(s[1], sort(Tail(s)))

\* .join('|')
RECURSIVE join(_)
join(s) ==
    IF s = <<>> THEN <<>>
    ELSE IF Len(s) = 1 THEN s[1]
    ELSE s[1] \o <<BAR>> \o join(Tail(s))

\* atts is None (absent, not an array) or Some of a sequence of attachments.
attsHash(atts, ignore) ==
    IF ignore \/ atts = None \/ atts[1] = <<>> THEN <<>>
    ELSE join(sort([k \in 1..Len(atts[1]) |-> attKey(atts[1][k])]))

(***************************************************************************)
(* State.                                                                  *)
(***************************************************************************)
VARIABLES
    \* --- remote service and iterAsc / planDeletionsAsc ---
    thread,       \* the topic held by the remote service: a sequence of comments
    ignoreAtts,   \* planDeletionsAsc's ignoreAtts
    startOffset,  \* planDeletionsAsc's startOffset
    offset,       \* iterAsc: offset
    items,        \* iterAsc: the page being yielded
    idx,          \* iterAsc: position in items of the next entry to yield
    prevKept,     \* planDeletionsAsc: prevKept (None or Some(entry))
    toDelete,     \* planDeletionsAsc: toDelete
    ppc,          \* where the planning pass is: "idle" (no pass), "fetch", "yield",
                  \* "done", "failed"
    repeats,      \* number of overlapping pages the service has returned
    fetches,      \* history: <<offset, count>> of every getComments call of iterAsc
    pages,        \* history: the items of every page the service returned
    pageSize,     \* iterAsc: page
    yielded,      \* history: the entries yielded by iterAsc so far
    planPos       \* history: for each element of toDelete, the position in
                  \* yielded of the entry whose id was pushed

planVars == <<thread, ignoreAtts, startOffset, offset, items, idx, prevKept,
              toDelete, ppc, repeats, fetches, pages, pageSize, yielded, planPos>>

VARIABLES
    \* --- one call of withRetries(fn, cfg) ---
    cfg,          \* the cfg argument: [maxRetries, baseBackoffMs], each optional
    attempt,      \* withRetries: attempt
    rpc,          \* where the call is: "idle", "inflight" (fn called, its promise
                  \* pending), "sleeping" (in backoff), "returned", "thrown"
    calls,        \* history: number of invocations of fn
    outcomes,     \* history: the outcome of every invocation of fn that settled
    waits,        \* history: number of backoff waits started
    delay,        \* the delay of the last backoff wait (-1 before the first)
    retval        \* what withRetries returned: None, or Some(value)

retryVars == <<cfg, attempt, rpc, calls, outcomes, waits, delay, retval>>

VARIABLES
    \* --- one call of pMap(items, mapper, {concurrency}) ---
    nItems,       \* items.length; the items are identified by their position 1..nItems
    concurrency,  \* pMap: concurrency, after line 215
    i,            \* pMap: i, the number of items whose mapper has been invoked
    active,       \* pMap: active
    resolved,     \* pMap: resolved
    results,      \* pMap: results; results[k] is TRUE once line 226 has assigned it
    settled,      \* the promise returned by pMap: "none" (no call), "pending",
                  \* "resolved", "rejected"
    wst,          \* per item: "unstarted", "running" (mapper invoked, its promise
                  \* pending), "fulfilled" / "rejected" (mapper's promise settled,
                  \* then/catch callbacks run, finally callback not yet), "done"
    starts        \* history: per item, how many times its mapper was invoked

pmapVars == <<nItems, concurrency, i, active, resolved, results, settled, wst, starts>>

VARIABLES
    \* --- one call of deleteBatch ---
    ok,           \* deleteBatch: ok
    processed,    \* deleteBatch: processed
    dbpc,         \* where deleteBatch is: "idle", "awaiting" (await pMap),
                  \* "returned", "thrown"
    returnedOk,   \* the value deleteBatch returned (-1 before it returns)
    wphase,       \* per item, while its mapper runs: "inflight" (deleteComment
                  \* called, pending) or "sleeping" (withRetries in backoff)
    wattempt,     \* per item: attempt of its withRetries call
    dcalls,       \* history: per item, number of deleteComment calls issued
    deleted       \* history: the items whose deleteComment call succeeded

deleteVars == <<ok, processed, dbpc, returnedOk, wphase, wattempt, dcalls, deleted>>

VARIABLES
    \* --- one run of main ---
    opts,         \* parseArgs: opts (the fields main reads)
    mpc,          \* where main is: "idle" (no run), "sanity", "total",
                  \* "planning", "deleting" (the await it is suspended at),
                  \* "returned", "rejected"
    total,        \* main: total (-1 when getTotal was not called or has not returned)
    shuttingDown, \* the module-level flag shuttingDown
    exitCode,     \* None while the process runs, Some(code) once it has exited
    dryReport,    \* what the dry run printed: None, or Some([count, head, tail])
    added         \* history: number of comments posted to the topic during the run

mainVars == <<opts, mpc, total, shuttingDown, exitCode, dryReport, added>>

VARIABLES
    \* --- the pure functions applied to an input ---
    text,         \* a string
    once,         \* None, or Some(normalizeText(text))
    twice,        \* None, or Some(normalizeText of the string held by once)
    attList,      \* an attachment list: None (absent) or Some(sequence)
    permuted,     \* a permutation of attList
    ignoreFlag,   \* the ignore argument of attsHash
    hashOfList,   \* None, or Some(attsHash(attList, ignoreFlag))
    hashOfPerm    \* None, or Some(attsHash(permuted, ignoreFlag))

fnVars == <<text, once, twice, attList, permuted, ignoreFlag, hashOfList, hashOfPerm>>

vars == <<planVars, retryVars, pmapVars, deleteVars, mainVars, fnVars>>

\* No run of main is in progress.
MainIdle ==
    /\ opts = <<>>
    /\ mpc = "idle"
    /\ total = -1
    /\ shuttingDown = FALSE
    /\ exitCode = None
    /\ dryReport = None
    /\ added = 0

\* No pure function is being applied.
FnIdle ==
    /\ text = <<>>
    /\ once = None
    /\ twice = None
    /\ attList = None
    /\ permuted = None
    /\ ignoreFlag = FALSE
    /\ hashOfList = None
    /\ hashOfPerm = None

\* No call of pMap is in progress.
PMapIdle ==
    /\ nItems = 0
    /\ concurrency = 1
    /\ i = 0
    /\ active = 0
    /\ resolved = 0
    /\ results = <<>>
    /\ settled = "none"
    /\ wst = <<>>
    /\ starts = <<>>

\* No call of deleteBatch is in progress.
DeleteIdle ==
    /\ ok = 0
    /\ processed = 0
    /\ dbpc = "idle"
    /\ returnedOk = -1
    /\ wphase = <<>>
    /\ wattempt = <<>>
    /\ dcalls = <<>>
    /\ deleted = {}

\* No planning pass is in progress.
PlanIdle ==
    /\ thread = <<>>
    /\ ignoreAtts = FALSE
    /\ startOffset = 0
    /\ offset = 0
    /\ items = <<>>
    /\ idx = 1
    /\ prevKept = None
    /\ toDelete = <<>>
    /\ ppc = "idle"
    /\ repeats = 0
    /\ fetches = <<>>
    /\ pages = <<>>
    /\ pageSize = ScaledPage
    /\ yielded = <<>>
    /\ planPos = <<>>

(***************************************************************************)
(* DEFAULTS, src/index.js:9-19.                                            *)
(***************************************************************************)

DefaultConcurrency == 2

DefaultMaxRetries == 6

DefaultBaseBackoffMs == 300

DefaultMaxBackoffMs == 3000

DefaultPlanPreview == 20

DefaultTail == 300

(***************************************************************************)
(* withRetries, src/index.js:138-160, and backoff, src/index.js:28-33.     *)
(*                                                                         *)
(* An outcome of fn is a success [ok |-> TRUE, code |-> None, value |-> v] *)
(* where v is the value the promise of fn is fulfilled with, or a failure  *)
(* [ok |-> FALSE, code |-> c, value |-> 0] where c is e.code: None when    *)
(* the error has no code, else Some(number).                               *)
(***************************************************************************)

\* Largest maxRetries passed in cfg.
MaxRetriesCfg == 2

\* The error codes the remote call may fail with (and an error without code).
ErrorCodes == {None, Some(5), Some(6), Some(9), Some(10), Some(499), Some(500),
               Some(599), Some(600)}

\* The values fn may be fulfilled with.
Values == {1, 2}

Outcomes ==
    {[ok |-> TRUE, code |-> None, value |-> v] : v \in Values}
        \cup {[ok |-> FALSE, code |-> c, value |-> 0] : c \in ErrorCodes}

\* Mutant of onFulfilled: the value of fn is dropped and the loop goes on.
onFulfilled_LoopsOn(out) == [rpc |-> "sleeping", retval |-> None]

\* Line 145, return await fn(): withRetries returns the value of fn.
onFulfilled(out) == [rpc |-> "returned", retval |-> Some(out.value)]

\* Mutant of retriable: the 5xx range is closed at 600.
retriable_Upto600(code) ==
    code # None /\ (code[1] = 6 \/ code[1] = 10 \/ (code[1] >= 500 /\ code[1] <= 600))

\* Line 151: code === 6 || code === 10 || (code >= 500 && code < 600);
\* every comparison is false when code is undefined.
retriable(code) ==
    code # None /\ (code[1] = 6 \/ code[1] = 10 \/ (code[1] >= 500 /\ code[1] < 600))

\* Mutant of giveUp: one retry too many.
giveUp_OffByOne(code, att, maxRetries) == ~retriable(code) \/ att > maxRetries

\* Line 152: !retriable || attempt >= maxRetries.
giveUp(code, att, maxRetries) == ~retriable(code) \/ att >= maxRetries

\* Lines 139-140: the locals maxRetries and base.
maxRetriesOf(c) == IF c.maxRetries # None THEN c.maxRetries[1] ELSE DefaultMaxRetries

baseOf(c) == IF c.baseBackoffMs # None THEN c.baseBackoffMs[1] ELSE DefaultBaseBackoffMs

RECURSIVE pow2(_)
pow2(n) == IF n = 0 THEN 1 ELSE 2 * pow2(n - 1)

\* Mutant of backoffExp: the cap is not applied.
backoffExp_NoCap(att, b, max) == b * pow2(att)

\* Line 29: Math.min(max, base * Math.pow(2, attempt)).
backoffExp(att, b, max) == Min(max, b * pow2(att))

\* Line 31: Math.floor(Math.random() * exp), with Math.random() taken at 0,
\* at 1/2 and at the largest value below 1.
backoffDelays(att, b, max) ==
    LET exp == backoffExp(att, b, max) IN {0, exp \div 2, exp - 1}

\* The cfg objects passed to withRetries: the empty cfg of the reading
\* calls (lines 166, 179, 277, 279), and cfgs that set maxRetries.
\* maxBackoffMs is a field the caller may set; withRetries does not read it
\* (lines 139-140).
Cfgs ==
    {[maxRetries |-> None, baseBackoffMs |-> None, maxBackoffMs |-> None]}
        \cup [maxRetries : {Some(n) : n \in 0..MaxRetriesCfg},
              baseBackoffMs : {None, Some(50), Some(10000)},
              maxBackoffMs : {None, Some(1000)}]

\* No call of withRetries is in progress.
RetryIdle ==
    /\ cfg = [maxRetries |-> None, baseBackoffMs |-> None, maxBackoffMs |-> None]
    /\ attempt = 0
    /\ rpc = "idle"
    /\ calls = 0
    /\ outcomes = <<>>
    /\ waits = 0
    /\ delay = -1
    /\ retval = None

\* withRetries has been called: lines 139-145 up to the first await, fn
\* has been invoked once and its promise is pending.
InitRetry ==
    /\ cfg \in Cfgs
    /\ attempt = 0
    /\ rpc = "inflight"
    /\ calls = 1
    /\ outcomes = <<>>
    /\ waits = 0
    /\ delay = -1
    /\ retval = None
    /\ PlanIdle
    /\ PMapIdle
    /\ DeleteIdle
    /\ MainIdle
    /\ FnIdle

\* The promise of fn settles with outcome out: line 145 returns, or the
\* catch block (lines 146-157) throws or starts a backoff wait.
FnSettles(out) ==
    /\ rpc = "inflight"
    /\ outcomes' = Append(outcomes, out)
    /\ IF out.ok
       THEN /\ rpc' = onFulfilled(out).rpc
            /\ retval' = onFulfilled(out).retval
            /\ UNCHANGED <<attempt, waits, delay>>
       ELSE IF giveUp(out.code, attempt, maxRetriesOf(cfg))
       THEN /\ rpc' = "thrown"
            /\ UNCHANGED <<attempt, waits, delay, retval>>
       ELSE /\ attempt' = attempt + 1
            /\ UNCHANGED retval
            /\ \E d \in backoffDelays(attempt + 1, baseOf(cfg), DefaultMaxBackoffMs) :
                 delay' = d
            /\ waits' = waits + 1
            /\ rpc' = "sleeping"
    /\ UNCHANGED <<cfg, calls>>
    /\ UNCHANGED <<planVars, pmapVars, deleteVars, mainVars, fnVars>>

\* The timer of sleep fires: backoff returns, the loop invokes fn again.
TimerFires ==
    /\ rpc = "sleeping"
    /\ rpc' = "inflight"
    /\ calls' = calls + 1
    /\ UNCHANGED <<cfg, attempt, outcomes, waits, delay, retval>>
    /\ UNCHANGED <<planVars, pmapVars, deleteVars, mainVars, fnVars>>

FnSettlesAny == \E out \in Outcomes : FnSettles(out)

NextRetry == FnSettlesAny \/ TimerFires

\* The remote call settles and the timer fires: the promise of fn and the
\* timer of sleep are served by the event loop.
SpecRetry == InitRetry /\ [][NextRetry]_vars /\ WF_vars(FnSettlesAny) /\ WF_vars(TimerFires)

(***************************************************************************)
(* The comments of the model: two attachments, and five kinds of comment   *)
(* that differ in author, raw text and attachment list.                    *)
(***************************************************************************)

\* 'photo'
Photo == <<112, 104, 111, 116, 111>>

NoObj == [owner_id |-> None, id |-> None, sticker_id |-> None, url |-> NoStr, link |-> NoStr]

AttA == [type |-> Photo, obj |-> Some([NoObj EXCEPT !.owner_id = Some(1), !.id = Some(10)])]

AttB == [type |-> Photo, obj |-> Some([NoObj EXCEPT !.owner_id = Some(-1), !.id = Some(9)])]

\* 'Hi' followed by a non-breaking space, 'hi' and 'h i'; the first two are
\* equal once normalized.
TextHiNbsp == <<72, 105, NBSP>>

TextHi == <<104, 105>>

TextHSpI == <<104, SP, 105>>

Kinds ==
    { [from_id |-> 1, text |-> TextHiNbsp, attachments |-> Some(<<AttA, AttB>>)],
      [from_id |-> 1, text |-> TextHi,     attachments |-> Some(<<AttB, AttA>>)],
      [from_id |-> 2, text |-> TextHi,     attachments |-> Some(<<AttB, AttA>>)],
      [from_id |-> 1, text |-> TextHi,     attachments |-> None],
      [from_id |-> 1, text |-> TextHSpI,   attachments |-> Some(<<AttA, AttB>>)] }

\* The comment at position k of the topic; its identifier is unique in the
\* topic and differs from its position.
Entry(kind, k) ==
    [id |-> 100 + k, from_id |-> kind.from_id, text |-> kind.text,
     attachments |-> kind.attachments]

Threads ==
    UNION { { [k \in 1..n |-> Entry(f[k], k)] : f \in [1..n -> Kinds] } : n \in 0..MaxThread }

(***************************************************************************)
(* board.getComments with sort: 'asc', as the remote service answers it.   *)
(***************************************************************************)

\* The items of the topic from position `from` (0-based), at most `count`.
getComments(from, count) == SubSeq(thread, from + 1, Min(Len(thread), from + count))

(***************************************************************************)
(* planDeletionsAsc, src/index.js:192-211.                                 *)
(***************************************************************************)

\* Mutant of isDuplicate: the texts are compared raw, not normalized.
isDuplicate_RawText(prev, cur, ignore) ==
    /\ prev.from_id = cur.from_id
    /\ prev.text = cur.text
    /\ attsHash(prev.attachments, ignore) = attsHash(cur.attachments, ignore)

\* Lines 199-203: sameAuthor && sameText && sameAtts.
isDuplicate(prev, cur, ignore) ==
    LET sameAuthor == prev.from_id = cur.from_id
        sameText   == normalizeText(prev.text) = normalizeText(cur.text)
        sameAtts   == attsHash(prev.attachments, ignore) = attsHash(cur.attachments, ignore)
    IN  sameAuthor /\ sameText /\ sameAtts

\* Mutant of planBody: the else branch (line 207) is missing, so prevKept
\* stays the first entry.
planBody_NeverAdvance(prev, cur, ignore) ==
    IF prev = None THEN [prevKept |-> Some(cur), push |-> FALSE]
    ELSE [prevKept |-> prev, push |-> isDuplicate(prev[1], cur, ignore)]

\* The body of the for-await loop, lines 197-208, for the entry cur: the new
\* prevKept and whether cur.id is pushed.
planBody(prev, cur, ignore) ==
    IF prev = None THEN [prevKept |-> Some(cur), push |-> FALSE]
    ELSE IF isDuplicate(prev[1], cur, ignore)
         THEN [prevKept |-> prev, push |-> TRUE]
         ELSE [prevKept |-> Some(cur), push |-> FALSE]

InitPlan ==
    /\ thread \in Threads
    /\ ignoreAtts \in BOOLEAN
    /\ startOffset \in {0, 1}
    /\ offset = startOffset
    /\ items = <<>>
    /\ idx = 1
    /\ prevKept = None
    /\ toDelete = <<>>
    /\ ppc = "fetch"
    /\ repeats = 0
    /\ fetches = <<>>
    /\ pages = <<>>
    /\ pageSize = ScaledPage
    /\ yielded = <<>>
    /\ planPos = <<>>
    /\ RetryIdle
    /\ PMapIdle
    /\ DeleteIdle
    /\ MainIdle
    /\ FnIdle

\* iterAsc, lines 179-182: one page request answered by the service. The
\* service answers from `offset`, or (at most MaxRepeat times) from an
\* earlier position, returning again items it has already returned.
FetchPage ==
    /\ ppc = "fetch"
    /\ \E d \in 0..(IF repeats < MaxRepeat THEN offset ELSE 0) :
         LET got == getComments(offset - d, pageSize) IN
         /\ repeats' = IF d > 0 THEN repeats + 1 ELSE repeats
         /\ items' = got
         /\ pages' = Append(pages, got)
         /\ idx' = 1
         /\ ppc' = IF got = <<>> THEN "done" ELSE "yield"
    /\ fetches' = Append(fetches, <<offset, pageSize>>)
    /\ UNCHANGED <<thread, ignoreAtts, startOffset, offset, prevKept, toDelete,
                   pageSize, yielded, planPos>>
    /\ UNCHANGED <<retryVars, pmapVars, deleteVars, mainVars, fnVars>>

\* Mutant of onFetchFailure: the failure is taken for the end of the topic.
onFetchFailure_EndsListing == "done"

\* Line 179 stands in no try block, nor does line 197: what withRetries
\* throws ends iterAsc and planDeletionsAsc.
onFetchFailure == "failed"

\* iterAsc, line 179: withRetries throws (fatal error or retries exhausted);
\* the generator and planDeletionsAsc end with that failure.
FetchFail ==
    /\ ppc = "fetch"
    /\ ppc' = onFetchFailure
    /\ fetches' = Append(fetches, <<offset, pageSize>>)
    /\ UNCHANGED <<thread, ignoreAtts, startOffset, offset, items, idx, prevKept,
                   toDelete, repeats, pages, pageSize, yielded, planPos>>
    /\ UNCHANGED <<retryVars, pmapVars, deleteVars, mainVars, fnVars>>

\* Mutant of shortPage: the loop ends only on an empty page.
shortPage_Never(its, pg) == FALSE

\* Line 185: items.length < page.
shortPage(its, pg) == Len(its) < pg

\* iterAsc line 183 yields items[idx] and planDeletionsAsc runs its loop
\* body on it; after the last item of the page, lines 184-185.
PlanStep ==
    /\ ppc = "yield"
    /\ LET cur == items[idx]
           r   == planBody(prevKept, cur, ignoreAtts)
       IN  /\ yielded' = Append(yielded, cur)
           /\ prevKept' = r.prevKept
           /\ toDelete' = IF r.push THEN Append(toDelete, cur.id) ELSE toDelete
           /\ planPos' = IF r.push THEN Append(planPos, Len(yielded) + 1) ELSE planPos
    /\ IF idx < Len(items)
       THEN /\ idx' = idx + 1
            /\ UNCHANGED <<offset, ppc>>
       ELSE /\ idx' = idx
            /\ offset' = offset + Len(items)
            /\ ppc' = IF shortPage(items, pageSize) THEN "done" ELSE "fetch"
    /\ UNCHANGED <<thread, ignoreAtts, startOffset, items, repeats, fetches, pages,
                   pageSize>>
    /\ UNCHANGED <<retryVars, pmapVars, deleteVars, mainVars, fnVars>>

NextPlan == FetchPage \/ FetchFail \/ PlanStep

SpecPlan == InitPlan /\ [][NextPlan]_vars

(***************************************************************************)
(* iterAsc with the page of the source, over topics whose length lies      *)
(* around one and two pages.  The comments are all alike (their content    *)
(* does not reach iterAsc) and the service answers every request from the  *)
(* requested offset.                                                       *)
(***************************************************************************)

IterLens == {0, 1, page - 1, page, page + 1, 2 * page, 2 * page + 1}

IterThreads ==
    { [k \in 1..n |-> Entry([from_id |-> 1, text |-> TextHi, attachments |-> None], k)] :
        n \in IterLens }

InitIter ==
    /\ thread \in IterThreads
    /\ ignoreAtts = FALSE
    /\ startOffset \in {0, 1}
    /\ offset = startOffset
    /\ items = <<>>
    /\ idx = 1
    /\ prevKept = None
    /\ toDelete = <<>>
    /\ ppc = "fetch"
    /\ repeats = MaxRepeat
    /\ fetches = <<>>
    /\ pages = <<>>
    /\ pageSize = page
    /\ yielded = <<>>
    /\ planPos = <<>>
    /\ RetryIdle
    /\ PMapIdle
    /\ DeleteIdle
    /\ MainIdle
    /\ FnIdle

SpecIter == InitIter /\ [][NextPlan]_vars

(***************************************************************************)
(* pMap, src/index.js:214-237.                                             *)
(*                                                                         *)
(* The mapper is an async function, as that of deleteBatch, the only       *)
(* caller, is: invoking it returns a promise and never throws.  The        *)
(* callbacks chained on that promise (then, catch, finally) run in later   *)
(* turns of the event loop, so callbacks of different items interleave.    *)
(***************************************************************************)

\* Longest items array.
MaxItems == 4

\* Largest concurrency passed to pMap.
MaxConc == 3

\* Line 214 ({ concurrency = 2 } = {}) and line 215
\* (Math.max(1, Number(concurrency) || 1)); arg is None when not passed.
concurrencyOf(arg) ==
    LET c == IF arg = None THEN DefaultConcurrency ELSE arg[1]
    IN  Max(1, IF c = 0 THEN 1 ELSE c)

ConcurrencyArgs == {None} \cup {Some(c) : c \in 0..MaxConc}

\* Mutant of canLaunch: one worker too many.
canLaunch_OneMore(act, conc, cur, n) == act <= conc /\ cur < n

\* Line 222: active < concurrency && i < items.length.
canLaunch(act, conc, cur, n) == act < conc /\ cur < n

\* Line 221: resolved === items.length.
shouldResolve(res, n) == res = n

\* Mutant of onRejected: the failure of a mapper is swallowed.
onRejected_Swallow(promise) == promise

\* Line 227, .catch(reject): rejecting a promise that is already settled
\* changes nothing.
onRejected(promise) == IF promise = "pending" THEN "rejected" ELSE promise

\* resolve(results) of line 221, on a promise that may be settled already.
onResolve(promise) == IF promise = "pending" THEN "resolved" ELSE promise

\* The state pMap's closures share, as one record.
PMapState ==
    [i |-> i, active |-> active, resolved |-> resolved, settled |-> settled,
     wst |-> wst, starts |-> starts]

\* Lines 222-233: the while loop of next; each turn invokes the mapper of
\* the next item (curIdx = i++, 0-based; item i + 1 here).
RECURSIVE launchLoop(_, _, _)
launchLoop(st, conc, n) ==
    IF canLaunch(st.active, conc, st.i, n)
    THEN launchLoop([st EXCEPT !.i = @ + 1,
                               !.active = @ + 1,
                               !.wst[st.i + 1] = "running",
                               !.starts[st.i + 1] = @ + 1],
                    conc, n)
    ELSE st

\* Lines 220-234: next().
next(st, conc, n) ==
    IF shouldResolve(st.resolved, n)
    THEN [st EXCEPT !.settled = onResolve(@)]
    ELSE launchLoop(st, conc, n)

\* Mutant of finallyBody: next() is called in the then callback only, so
\* not after a mapper that failed.
finallyBody_NoNextOnFailure(st, k, conc, n) ==
    LET st1 == [st EXCEPT !.active = @ - 1, !.resolved = @ + 1, !.wst[k] = "done"]
    IN  IF st.wst[k] = "rejected" THEN st1 ELSE next(st1, conc, n)

\* Lines 228-232: the finally callback of item k.
finallyBody(st, k, conc, n) ==
    next([st EXCEPT !.active = @ - 1, !.resolved = @ + 1, !.wst[k] = "done"], conc, n)

\* The variables take the values of the record st.
SetPMapState(st) ==
    /\ i' = st.i
    /\ active' = st.active
    /\ resolved' = st.resolved
    /\ settled' = st.settled
    /\ wst' = st.wst
    /\ starts' = st.starts

\* Lines 216-219 and the first next() of line 235: the state of the
\* closures once pMap has returned its promise.
pMapStart(n, conc) ==
    next([i |-> 0, active |-> 0, resolved |-> 0, settled |-> "pending",
          wst |-> [k \in 1..n |-> "unstarted"], starts |-> [k \in 1..n |-> 0]],
         conc, n)

\* pMap(items, mapper, {concurrency: arg}) has been called with n items:
\* lines 215-219 and the first next() of line 235 have run.
PMapCalled(n, arg) ==
    LET st  == pMapStart(n, concurrencyOf(arg))
    IN  /\ nItems = n
        /\ concurrency = concurrencyOf(arg)
        /\ results = [k \in 1..n |-> FALSE]
        /\ i = st.i
        /\ active = st.active
        /\ resolved = st.resolved
        /\ settled = st.settled
        /\ wst = st.wst
        /\ starts = st.starts

InitPMap ==
    /\ \E n \in 0..MaxItems : \E arg \in ConcurrencyArgs : PMapCalled(n, arg)
    /\ PlanIdle
    /\ RetryIdle
    /\ DeleteIdle
    /\ MainIdle
    /\ FnIdle

\* The promise of item k's mapper settles, fulfilled or rejected, and the
\* then callback (line 226) or the catch callback (line 227) runs.
MapperSettled(k, fulfilled) ==
    /\ k \in 1..nItems
    /\ wst[k] = "running"
    /\ wst' = [wst EXCEPT ![k] = IF fulfilled THEN "fulfilled" ELSE "rejected"]
    /\ results' = IF fulfilled THEN [results EXCEPT ![k] = TRUE] ELSE results
    /\ settled' = IF fulfilled THEN settled ELSE onRejected(settled)
    /\ UNCHANGED <<nItems, concurrency, i, active, resolved, starts>>

\* The finally callback of item k runs (lines 228-232).
FinallyRuns(k) ==
    /\ k \in 1..nItems
    /\ wst[k] \in {"fulfilled", "rejected"}
    /\ SetPMapState(finallyBody(PMapState, k, concurrency, nItems))
    /\ UNCHANGED <<nItems, concurrency, results>>

WorkerSettles(k) ==
    /\ \E fulfilled \in BOOLEAN : MapperSettled(k, fulfilled)
    /\ UNCHANGED <<planVars, retryVars, deleteVars, mainVars, fnVars>>

WorkerFinally(k) ==
    /\ FinallyRuns(k)
    /\ UNCHANGED <<planVars, retryVars, deleteVars, mainVars, fnVars>>

WorkerSettlesAny == \E k \in 1..nItems : WorkerSettles(k)

WorkerFinallyAny == \E k \in 1..nItems : WorkerFinally(k)

NextPMap == WorkerSettlesAny \/ WorkerFinallyAny

\* Every started mapper settles and every queued callback runs.
FairPMap ==
    \A k \in 1..MaxItems : WF_vars(WorkerSettles(k)) /\ WF_vars(WorkerFinally(k))

SpecPMap == InitPMap /\ [][NextPMap]_vars /\ FairPMap

(***************************************************************************)
(* deleteBatch, src/index.js:242-270: pMap over ids with a mapper that     *)
(* calls withRetries(deleteComment) inside try/catch/finally.  An id is    *)
(* identified by its position 1..nItems in ids.                            *)
(***************************************************************************)

\* Longest plan handed to deleteBatch.
MaxIds == 3

\* The cfg deleteBatch passes to withRetries (lines 250-253): maxRetries and
\* baseBackoffMs of the options, both always present, and nothing else.
DeleteCfgs ==
    [maxRetries : {Some(n) : n \in 0..MaxRetriesCfg},
     baseBackoffMs : {Some(DefaultBaseBackoffMs)},
     maxBackoffMs : {None}]

\* The outcomes of a deleteComment call: success, an error without code, a
\* retriable error (6) and a fatal one (600).
DeleteOutcomes ==
    {[ok |-> TRUE, code |-> None], [ok |-> FALSE, code |-> None],
     [ok |-> FALSE, code |-> Some(6)], [ok |-> FALSE, code |-> Some(600)]}

\* deleteBatch has been called: lines 243-248; pMap has invoked the mapper
\* of the first items, and each of them has called deleteComment once.
InitDelete ==
    /\ \E n \in 0..MaxIds : \E c \in {1, DefaultConcurrency} : PMapCalled(n, Some(c))
    /\ cfg \in DeleteCfgs
    /\ attempt = 0
    /\ rpc = "idle"
    /\ calls = 0
    /\ outcomes = <<>>
    /\ waits = 0
    /\ delay = -1
    /\ retval = None
    /\ ok = 0
    /\ processed = 0
    /\ dbpc = "awaiting"
    /\ returnedOk = -1
    /\ wphase = [k \in 1..nItems |-> "inflight"]
    /\ wattempt = [k \in 1..nItems |-> 0]
    /\ dcalls = [k \in 1..nItems |-> starts[k]]
    /\ deleted = {}
    /\ PlanIdle
    /\ MainIdle
    /\ FnIdle

\* Mutant of countOk: a failed deletion is counted too.
countOk_CountsFailures(n, succeeded) == n + 1

\* Line 254 (ok++, reached only when withRetries returned) and the catch
\* block of lines 255-259, which leaves ok alone.
countOk(n, succeeded) == IF succeeded THEN n + 1 ELSE n

\* The deleteComment call of item k settles with outcome out. withRetries
\* returns (line 145), throws (line 154) or starts a backoff wait (lines
\* 156-157); when it returns or throws, the mapper runs lines 254-266 and
\* its promise is fulfilled, so the then callback of pMap runs (line 226).
DeleteCallSettles(k, out) ==
    /\ k \in 1..nItems
    /\ wst[k] = "running"
    /\ wphase[k] = "inflight"
    /\ IF out.ok \/ giveUp(out.code, wattempt[k], maxRetriesOf(cfg))
       THEN /\ ok' = countOk(ok, out.ok)
            /\ processed' = processed + 1
            /\ deleted' = IF out.ok THEN deleted \cup {k} ELSE deleted
            /\ MapperSettled(k, TRUE)
            /\ UNCHANGED <<wphase, wattempt>>
       ELSE /\ wattempt' = [wattempt EXCEPT ![k] = @ + 1]
            /\ wphase' = [wphase EXCEPT ![k] = "sleeping"]
            /\ UNCHANGED <<ok, processed, deleted>>
            /\ UNCHANGED pmapVars
    /\ UNCHANGED <<dbpc, returnedOk, dcalls>>
    /\ UNCHANGED <<planVars, retryVars, mainVars, fnVars>>

\* The backoff timer of item k fires: withRetries calls deleteComment again.
DeleteTimerFires(k) ==
    /\ k \in 1..nItems
    /\ wst[k] = "running"
    /\ wphase[k] = "sleeping"
    /\ wphase' = [wphase EXCEPT ![k] = "inflight"]
    /\ dcalls' = [dcalls EXCEPT ![k] = @ + 1]
    /\ UNCHANGED <<ok, processed, dbpc, returnedOk, wattempt, deleted>>
    /\ UNCHANGED <<planVars, retryVars, pmapVars, mainVars, fnVars>>

\* The finally callback of item k runs; the mapper of every item it
\* launches calls deleteComment once.
DeleteWorkerFinally(k) ==
    /\ FinallyRuns(k)
    /\ dcalls' = [j \in 1..nItems |-> dcalls[j] + (starts'[j] - starts[j])]
    /\ UNCHANGED <<ok, processed, dbpc, returnedOk, wphase, wattempt, deleted>>
    /\ UNCHANGED <<planVars, retryVars, mainVars, fnVars>>

\* Lines 248 and 269: await pMap(...) ends, deleteBatch returns ok (or
\* throws what pMap was rejected with).
DeleteBatchEnds ==
    /\ dbpc = "awaiting"
    /\ settled \in {"resolved", "rejected"}
    /\ dbpc' = IF settled = "resolved" THEN "returned" ELSE "thrown"
    /\ returnedOk' = IF settled = "resolved" THEN ok ELSE returnedOk
    /\ UNCHANGED <<ok, processed, wphase, wattempt, dcalls, deleted>>
    /\ UNCHANGED <<planVars, retryVars, pmapVars, mainVars, fnVars>>

DeleteCallSettlesAny ==
    \E k \in 1..nItems : \E out \in DeleteOutcomes : DeleteCallSettles(k, out)

DeleteTimerFiresAny == \E k \in 1..nItems : DeleteTimerFires(k)

DeleteWorkerFinallyAny == \E k \in 1..nItems : DeleteWorkerFinally(k)

NextDelete ==
    \/ DeleteCallSettlesAny
    \/ DeleteTimerFiresAny
    \/ DeleteWorkerFinallyAny
    \/ DeleteBatchEnds

\* Every remote call settles, every timer fires, every queued callback runs.
FairDelete ==
    /\ \A k \in 1..MaxIds :
         /\ WF_vars(\E out \in DeleteOutcomes : DeleteCallSettles(k, out))
         /\ WF_vars(DeleteTimerFires(k))
         /\ WF_vars(DeleteWorkerFinally(k))
    /\ WF_vars(DeleteBatchEnds)

SpecDelete == InitDelete /\ [][NextDelete]_vars /\ FairDelete

(***************************************************************************)
(* main, src/index.js:299-350, with sanityCheck (274-284), getTotal        *)
(* (165-170) and the signal handler of setupSignals (286-297).             *)
(*                                                                         *)
(* sanityCheck and getTotal are one remote exchange each, that succeeds or *)
(* fails for good; the planning pass and deleteBatch are the actions of    *)
(* SpecPlan and SpecDelete, taken while the process runs.                  *)
(***************************************************************************)

\* The comments of the topics of a run: two authors, same text and
\* attachments.
MainKinds ==
    { [from_id |-> 1, text |-> TextHi, attachments |-> Some(<<AttB, AttA>>)],
      [from_id |-> 2, text |-> TextHi, attachments |-> Some(<<AttB, AttA>>)] }

MainThreads ==
    UNION { { [k \in 1..n |-> Entry(f[k], k)] : f \in [1..n -> MainKinds] } : n \in 0..MaxThread }

\* The options parseArgs returns: a full scan, or a tail scan of the last 1
\* or 2 comments; maxRetries 0 or 1; the other fields main reads.
OptsSet ==
    { o \in [full : BOOLEAN, tail : {1, 2, DefaultTail}, ignoreAtts : {FALSE},
             dryRun : BOOLEAN, concurrency : {1, DefaultConcurrency},
             maxRetries : {0, 1}, baseBackoffMs : {DefaultBaseBackoffMs},
             planPreview : {DefaultPlanPreview}] :
        o.full <=> (o.tail = DefaultTail) }

\* Mutant of startOffsetOf: the entry left of the window is not fetched.
startOffsetOf_NoJoint(tot, tl) == Max(0, tot - tl)

\* Line 309: Math.max(0, total - (opts.tail + 1)).
startOffsetOf(tot, tl) == Max(0, tot - (tl + 1))

\* Mutant of planSettled: main goes on while the planning pass still runs.
planSettled_NotAwaited(p) == p \in {"fetch", "done"}

\* Line 315, await planDeletionsAsc(...): main resumes once the pass has
\* returned.
planSettled(p) == p = "done"

\* Mutant of afterPlan: the dry-run option is not looked at.
afterPlan_IgnoresDryRun(plan, dry) == IF plan = <<>> THEN "return" ELSE "delete"

\* Lines 321-339: what main does with the plan.
afterPlan(plan, dry) ==
    IF dry THEN "exit"
    ELSE IF plan = <<>> THEN "return"
    ELSE "delete"

\* Lines 322-328: the count, and the first and last planPreview identifiers
\* (printed when the plan is not empty).
dryRunReport(plan, preview) ==
    [count |-> Len(plan),
     head  |-> SubSeq(plan, 1, Min(preview, Len(plan))),
     tail  |-> SubSeq(plan, Max(Len(plan) - preview, 0) + 1, Len(plan))]

Running == exitCode = None

\* main has run up to its first await: setupSignals, parseArgs, and
\* sanityCheck has issued its first call. The service of a run answers
\* every page request from the requested offset (repeats = MaxRepeat);
\* overlapping pages are explored in SpecPlan.
InitMain ==
    /\ opts \in OptsSet
    /\ mpc = "sanity"
    /\ total = -1
    /\ shuttingDown = FALSE
    /\ exitCode = None
    /\ dryReport = None
    /\ added = 0
    /\ thread \in MainThreads
    /\ ignoreAtts = FALSE
    /\ startOffset = 0
    /\ offset = 0
    /\ items = <<>>
    /\ idx = 1
    /\ prevKept = None
    /\ toDelete = <<>>
    /\ ppc = "idle"
    /\ repeats = MaxRepeat
    /\ fetches = <<>>
    /\ pages = <<>>
    /\ pageSize = ScaledPage
    /\ yielded = <<>>
    /\ planPos = <<>>
    /\ RetryIdle
    /\ PMapIdle
    /\ DeleteIdle
    /\ FnIdle

\* Lines 315-319: planDeletionsAsc is called with startOffset so; iterAsc
\* runs up to its first await.
PlanCalled(so) ==
    /\ ppc' = "fetch"
    /\ startOffset' = so
    /\ offset' = so
    /\ ignoreAtts' = opts.ignoreAtts
    /\ UNCHANGED <<thread, items, idx, prevKept, toDelete, repeats, fetches, pages,
                   pageSize, yielded, planPos>>

\* sanityCheck returns (line 303); main calls getTotal (line 307) or, with
\* --full, planDeletionsAsc from offset 0.
SanityOk ==
    /\ Running
    /\ mpc = "sanity"
    /\ IF opts.full
       THEN /\ mpc' = "planning"
            /\ PlanCalled(0)
       ELSE /\ mpc' = "total"
            /\ UNCHANGED planVars
    /\ UNCHANGED <<opts, total, shuttingDown, exitCode, dryReport, added>>
    /\ UNCHANGED <<retryVars, pmapVars, deleteVars, fnVars>>

\* Lines 280-283: a call of sanityCheck failed for good, process.exit(2).
SanityFail ==
    /\ Running
    /\ mpc = "sanity"
    /\ exitCode' = Some(2)
    /\ UNCHANGED <<opts, mpc, total, shuttingDown, dryReport, added>>
    /\ UNCHANGED <<planVars, retryVars, pmapVars, deleteVars, fnVars>>

\* getTotal returns the count the service reports (line 169); lines
\* 307-309 and 315.
TotalOk ==
    /\ Running
    /\ mpc = "total"
    /\ total' = Len(thread)
    /\ mpc' = "planning"
    /\ PlanCalled(startOffsetOf(Len(thread), opts.tail))
    /\ UNCHANGED <<opts, shuttingDown, exitCode, dryReport, added>>
    /\ UNCHANGED <<retryVars, pmapVars, deleteVars, fnVars>>

\* The call of getTotal failed for good: getTotal and main are rejected,
\* line 350 prints the error and exits with code 1.
TotalFail ==
    /\ Running
    /\ mpc = "total"
    /\ mpc' = "rejected"
    /\ exitCode' = Some(1)
    /\ UNCHANGED <<opts, total, shuttingDown, dryReport, added>>
    /\ UNCHANGED <<planVars, retryVars, pmapVars, deleteVars, fnVars>>

\* Someone posts a comment to the topic while the run reads it (at most
\* one, and the topic holds at most MaxThread comments).
CommentAdded ==
    /\ Running
    /\ mpc \in {"total", "planning"}
    /\ ppc \in {"idle", "fetch", "yield"}
    /\ added = 0
    /\ Len(thread) < MaxThread
    /\ \E kind \in MainKinds : thread' = Append(thread, Entry(kind, Len(thread) + 1))
    /\ added' = added + 1
    /\ UNCHANGED <<ignoreAtts, startOffset, offset, items, idx, prevKept, toDelete,
                   ppc, repeats, fetches, pages, pageSize, yielded, planPos>>
    /\ UNCHANGED <<opts, mpc, total, shuttingDown, exitCode, dryReport>>
    /\ UNCHANGED <<retryVars, pmapVars, deleteVars, fnVars>>

MainFetchPage == Running /\ FetchPage

MainFetchFail == Running /\ FetchFail

MainPlanStep == Running /\ PlanStep

\* planDeletionsAsc threw (a page request failed for good): main is
\* rejected, line 350 prints the error and exits with code 1.
PlanThrows ==
    /\ Running
    /\ mpc = "planning"
    /\ ppc = "failed"
    /\ mpc' = "rejected"
    /\ exitCode' = Some(1)
    /\ UNCHANGED <<opts, total, shuttingDown, dryReport, added>>
    /\ UNCHANGED <<planVars, retryVars, pmapVars, deleteVars, fnVars>>

\* Lines 243-248 and 268: deleteBatch is called with n ids; pMap has
\* invoked the mapper of the first items, each of which has called
\* deleteComment once.
DeleteBatchCalled(n, conc, cf) ==
    LET c  == concurrencyOf(Some(conc))
        st == pMapStart(n, c)
    IN  /\ nItems' = n
        /\ concurrency' = c
        /\ results' = [k \in 1..n |-> FALSE]
        /\ SetPMapState(st)
        /\ cfg' = cf
        /\ UNCHANGED <<attempt, rpc, calls, outcomes, waits, delay, retval>>
        /\ ok' = 0
        /\ processed' = 0
        /\ dbpc' = "awaiting"
        /\ returnedOk' = -1
        /\ wphase' = [k \in 1..n |-> "inflight"]
        /\ wattempt' = [k \in 1..n |-> 0]
        /\ dcalls' = [k \in 1..n |-> st.starts[k]]
        /\ deleted' = {}

\* planDeletionsAsc has returned the plan; lines 321-344 up to the next
\* await, the return or the exit.
PlanReturns ==
    /\ Running
    /\ mpc = "planning"
    /\ planSettled(ppc)
    /\ LET what == afterPlan(toDelete, opts.dryRun) IN
       CASE what = "exit" ->
              /\ dryReport' = Some(dryRunReport(toDelete, opts.planPreview))
              /\ exitCode' = Some(0)
              /\ UNCHANGED <<mpc, retryVars, pmapVars, deleteVars>>
         [] what = "return" ->
              /\ mpc' = "returned"
              /\ UNCHANGED <<exitCode, dryReport, retryVars, pmapVars, deleteVars>>
         [] what = "delete" ->
              /\ mpc' = "deleting"
              /\ DeleteBatchCalled(Len(toDelete), opts.concurrency,
                                   [maxRetries |-> Some(opts.maxRetries),
                                    baseBackoffMs |-> Some(opts.baseBackoffMs),
                                    maxBackoffMs |-> None])
              /\ UNCHANGED <<exitCode, dryReport>>
    /\ UNCHANGED <<opts, total, shuttingDown, added>>
    /\ UNCHANGED <<planVars, fnVars>>

MainDeleteCallSettles == Running /\ DeleteCallSettlesAny

MainDeleteTimerFires == Running /\ DeleteTimerFiresAny

MainDeleteWorkerFinally == Running /\ DeleteWorkerFinallyAny

MainDeleteBatchEnds == Running /\ DeleteBatchEnds

\* Lines 339-347: deleteBatch has returned, main prints the totals and
\* returns (were deleteBatch to throw, main would be rejected and line 350
\* would exit with code 1).
DeleteReturns ==
    /\ Running
    /\ mpc = "deleting"
    /\ dbpc \in {"returned", "thrown"}
    /\ IF dbpc = "returned"
       THEN /\ mpc' = "returned"
            /\ UNCHANGED exitCode
       ELSE /\ mpc' = "rejected"
            /\ exitCode' = Some(1)
    /\ UNCHANGED <<opts, total, shuttingDown, dryReport, added>>
    /\ UNCHANGED <<planVars, retryVars, pmapVars, deleteVars, fnVars>>

\* main has returned and no timer is pending: the process ends with code 0.
ProcessEnds ==
    /\ Running
    /\ mpc = "returned"
    /\ ~shuttingDown
    /\ exitCode' = Some(0)
    /\ UNCHANGED <<opts, mpc, total, shuttingDown, dryReport, added>>
    /\ UNCHANGED <<planVars, retryVars, pmapVars, deleteVars, fnVars>>

\* Lines 288-293: SIGINT or SIGTERM is delivered for the first time; the
\* handler sets the flag and arms the 1500 ms timer.
SignalReceived ==
    /\ Running
    /\ ~shuttingDown
    /\ shuttingDown' = TRUE
    /\ UNCHANGED <<opts, mpc, total, exitCode, dryReport, added>>
    /\ UNCHANGED <<planVars, retryVars, pmapVars, deleteVars, fnVars>>

\* Line 293: the timer armed by the handler fires, process.exit(130).
ExitTimerFires ==
    /\ Running
    /\ shuttingDown
    /\ exitCode' = Some(130)
    /\ UNCHANGED <<opts, mpc, total, shuttingDown, dryReport, added>>
    /\ UNCHANGED <<planVars, retryVars, pmapVars, deleteVars, fnVars>>

NextMain ==
    \/ SanityOk
    \/ SanityFail
    \/ TotalOk
    \/ TotalFail
    \/ CommentAdded
    \/ MainFetchPage
    \/ MainFetchFail
    \/ MainPlanStep
    \/ PlanThrows
    \/ PlanReturns
    \/ MainDeleteCallSettles
    \/ MainDeleteTimerFires
    \/ MainDeleteWorkerFinally
    \/ MainDeleteBatchEnds
    \/ DeleteReturns
    \/ ProcessEnds
    \/ SignalReceived
    \/ ExitTimerFires

\* The steps of the program and of the remote service answering it; the
\* signal and the comment posted by someone else are not among them.
ProgramStep ==
    \/ SanityOk
    \/ SanityFail
    \/ TotalOk
    \/ TotalFail
    \/ MainFetchPage
    \/ MainFetchFail
    \/ MainPlanStep
    \/ PlanThrows
    \/ PlanReturns
    \/ MainDeleteCallSettles
    \/ MainDeleteTimerFires
    \/ MainDeleteWorkerFinally
    \/ MainDeleteBatchEnds
    \/ DeleteReturns
    \/ ProcessEnds
    \/ ExitTimerFires

\* The event loop runs what is ready: remote calls settle, timers fire and
\* queued callbacks run.
SpecMain == InitMain /\ [][NextMain]_vars /\ WF_vars(ProgramStep)

(***************************************************************************)
(* attsHash applied to an attachment list and to a permutation of it.      *)
(***************************************************************************)

\* Longest attachment list.
MaxAtts == 3

\* 'sticker'
Sticker == <<115, 116, 105, 99, 107, 101, 114>>

\* A sticker, which has a sticker_id only, and an attachment without type.
AttSticker == [type |-> Sticker, obj |-> Some([NoObj EXCEPT !.sticker_id = Some(7)])]

AttNoType == [type |-> NoStr, obj |-> None]

SampleAtts == {AttA, AttB, AttSticker, AttNoType}

AttLists == UNION { [1..n -> SampleAtts] : n \in 0..MaxAtts }

\* The bijections of 1..n.
Perms(n) == { f \in [1..n -> 1..n] : \A a, b \in 1..n : f[a] = f[b] => a = b }

\* An absent list, or a list and one of its permutations.
InitAtts ==
    /\ \/ attList = None /\ permuted = None
       \/ \E l \in AttLists : \E f \in Perms(Len(l)) :
            /\ attList = Some(l)
            /\ permuted = Some([k \in 1..Len(l) |-> l[f[k]]])
    /\ ignoreFlag \in BOOLEAN
    /\ hashOfList = None
    /\ hashOfPerm = None
    /\ text = <<>>
    /\ once = None
    /\ twice = None
    /\ PlanIdle
    /\ RetryIdle
    /\ PMapIdle
    /\ DeleteIdle
    /\ MainIdle

\* attsHash(attList, ignoreFlag) is called.
HashList ==
    /\ hashOfList = None
    /\ hashOfList' = Some(attsHash(attList, ignoreFlag))
    /\ UNCHANGED <<text, once, twice, attList, permuted, ignoreFlag, hashOfPerm>>
    /\ UNCHANGED <<planVars, retryVars, pmapVars, deleteVars, mainVars>>

\* attsHash(permuted, ignoreFlag) is called.
HashPermuted ==
    /\ hashOfPerm = None
    /\ hashOfPerm' = Some(attsHash(permuted, ignoreFlag))
    /\ UNCHANGED <<text, once, twice, attList, permuted, ignoreFlag, hashOfList>>
    /\ UNCHANGED <<planVars, retryVars, pmapVars, deleteVars, mainVars>>

NextAtts == HashList \/ HashPermuted

SpecAtts == InitAtts /\ [][NextAtts]_vars

(***************************************************************************)
(* normalizeText applied to a string, then to its own result.              *)
(***************************************************************************)

\* Longest string.
MaxText == 3

\* 'a', 'A', space, tab, line feed, non-breaking space, and two of the
\* zero-width characters.
TextAlphabet == {97, ChA, SP, TAB, NL, NBSP, ZWSP, BOM}

Texts == UNION { [1..n -> TextAlphabet] : n \in 0..MaxText }

InitText ==
    /\ text \in Texts
    /\ once = None
    /\ twice = None
    /\ attList = None
    /\ permuted = None
    /\ ignoreFlag = FALSE
    /\ hashOfList = None
    /\ hashOfPerm = None
    /\ PlanIdle
    /\ RetryIdle
    /\ PMapIdle
    /\ DeleteIdle
    /\ MainIdle

\* normalizeText(text) is called.
NormalizeOnce ==
    /\ once = None
    /\ once' = Some(normalizeText(text))
    /\ UNCHANGED <<text, twice, attList, permuted, ignoreFlag, hashOfList, hashOfPerm>>
    /\ UNCHANGED <<planVars, retryVars, pmapVars, deleteVars, mainVars>>

\* normalizeText is called on the string the first call returned.
NormalizeTwice ==
    /\ once # None
    /\ twice = None
    /\ twice' = Some(normalizeText(once[1]))
    /\ UNCHANGED <<text, once, attList, permuted, ignoreFlag, hashOfList, hashOfPerm>>
    /\ UNCHANGED <<planVars, retryVars, pmapVars, deleteVars, mainVars>>

NextText == NormalizeOnce \/ NormalizeTwice

SpecText == InitText /\ [][NextText]_vars

(***************************************************************************)
(* Properties of the planning pass.                                        *)
(***************************************************************************)

\* The signature of every kind of comment (author, normalized text,
\* attachment signature), with and without ignoreAtts.
SigTable ==
    [kind \in Kinds, ignore \in BOOLEAN |->
        <<kind.from_id, normalizeText(kind.text), attsHash(kind.attachments, ignore)>>]

\* The signature of an entry under the run's ignoreAtts.
Sig(e) ==
    SigTable[[from_id |-> e.from_id, text |-> e.text, attachments |-> e.attachments],
             ignoreAtts]

Ids(s) == [k \in 1..Len(s) |-> s[k].id]

\* s is a subsequence of t (same relative order).
RECURSIVE IsSubseq(_, _)
IsSubseq(s, t) ==
    IF s = <<>> THEN TRUE
    ELSE IF t = <<>> THEN FALSE
    ELSE IF s[1] = t[1] THEN IsSubseq(Tail(s), Tail(t)) \/ IsSubseq(s, Tail(t))
    ELSE IsSubseq(s, Tail(t))

\* For each position p of yielded: whether it carries the same signature
\* as position p - 1 (FALSE at position 1).
SameAsPrevious ==
    LET sg == [p \in 1..Len(yielded) |-> Sig(yielded[p])]
    IN  [p \in 1..Len(yielded) |-> p >= 2 /\ sg[p] = sg[p - 1]]

\* a..b is a maximal run of adjacent signature-equal entries of yielded,
\* given eq = SameAsPrevious.
MaximalRun(eq, a, b) ==
    /\ a <= b
    /\ \A p \in (a + 1)..b : eq[p]
    /\ ~eq[a]
    /\ (b < Len(yielded) => ~eq[b + 1])

\* C1: when planDeletionsAsc returns, the plan is a subsequence of the
\* identifiers of the yielded entries and does not hold the identifier of
\* the first yielded entry.
C1_PlanIsSubsequenceWithoutFirstId ==
    ppc = "done" =>
        /\ IsSubseq(toDelete, Ids(yielded))
        /\ (yielded # <<>> => yielded[1].id \notin Range(toDelete))

\* C2: for every maximal run of k >= 2 adjacent signature-equal entries of
\* the yielded sequence, exactly the k - 1 entries after its first are
\* planned: their positions are the planned positions inside the run, and
\* the plan holds the identifiers of the planned positions.
C2_RunOfKPlansKMinusOne ==
    ppc = "done" =>
        LET eq == SameAsPrevious IN
        /\ \A a \in 1..Len(yielded) : \A b \in a..Len(yielded) :
             (MaximalRun(eq, a, b) /\ b - a + 1 >= 2) =>
                 /\ Range(planPos) \cap (a..b) = (a + 1)..b
                 /\ Cardinality({j \in 1..Len(planPos) : planPos[j] \in a..b}) = b - a
        /\ Len(toDelete) = Len(planPos)
        /\ \A j \in 1..Len(planPos) : toDelete[j] = yielded[planPos[j]].id

\* A run of three raw-different, signature-equal entries has been planned.
C2_Witness ==
    /\ ppc = "done"
    /\ Len(yielded) >= 3
    /\ MaximalRun(SameAsPrevious, 1, 3)
    /\ yielded[1].text # yielded[2].text
    /\ toDelete = <<yielded[2].id, yielded[3].id>>

\* C3: an entry is planned only if its signature equals that of the entry
\* yielded immediately before it; an entry whose signature differs from
\* its immediate predecessor's is never planned, whatever precedes that.
C3_PlannedOnlyIfEqualToPrevious ==
    LET eq == SameAsPrevious IN
    /\ \A j \in 1..Len(planPos) : eq[planPos[j]]
    /\ \A p \in 1..Len(yielded) : ~eq[p] => p \notin Range(planPos)
    /\ Len(toDelete) = Len(planPos)

\* Authors u1, u2, u1 with the same text: nothing is planned.
C3_Witness ==
    /\ ppc = "done"
    /\ Len(yielded) = 3
    /\ Sig(yielded[1]) = Sig(yielded[3])
    /\ Sig(yielded[1]) # Sig(yielded[2])
    /\ yielded[1].from_id # yielded[2].from_id
    /\ normalizeText(yielded[1].text) = normalizeText(yielded[2].text)
    /\ toDelete = <<>>

\* C4: the identifier of the entry held as prevKept is never in the plan.
C4_KeptNeverPlanned ==
    prevKept # None => prevKept[1].id \notin Range(toDelete)

(***************************************************************************)
(* Properties of iterAsc.                                                  *)
(***************************************************************************)

\* The pages ps one after the other.
RECURSIVE Flatten(_)
Flatten(ps) == IF ps = <<>> THEN <<>> ELSE ps[1] \o Flatten(Tail(ps))

\* The number of items of the first n pages of ps.
RECURSIVE ItemsIn(_, _)
ItemsIn(ps, n) == IF n = 0 THEN 0 ELSE ItemsIn(ps, n - 1) + Len(ps[n])

\* C17: iterAsc yields the items of the pages it fetched, in order and
\* nothing else (all of them once the current page is exhausted); request
\* number k asks for 100 items from startOffset plus the number of items of
\* the pages before it; a request follows only a full page, and the
\* iterator has ended exactly when the last page was empty or short and
\* has been yielded.
C17_YieldsFetchedPagesInOrder ==
    LET all == Flatten(pages)
        np  == Len(pages)
    IN  /\ pageSize = page
        /\ Len(yielded) <= Len(all)
        /\ yielded = SubSeq(all, 1, Len(yielded))
        /\ (ppc # "yield" => yielded = all)
        /\ (ppc = "yield" => Len(all) - Len(yielded) = Len(items) - idx + 1)
        /\ \A k \in 1..Len(fetches) :
             fetches[k] = <<startOffset + ItemsIn(pages, k - 1), page>>
        /\ \A k \in 1..(np - 1) : Len(pages[k]) = page
        /\ Len(fetches) = IF ppc = "failed" THEN np + 1 ELSE np
        /\ (ppc = "done" <=> (np >= 1 /\ Len(pages[np]) < page /\ yielded = all))
        /\ (ppc = "fetch" => np = 0 \/ Len(pages[np]) = page)

\* A topic of two full pages: the third request is answered with an empty
\* page and the iterator ends.
C17_Witness ==
    /\ ppc = "done"
    /\ startOffset = 0
    /\ Len(fetches) = 3
    /\ fetches[3] = <<2 * page, page>>
    /\ pages[3] = <<>>
    /\ Len(yielded) = 2 * page

(***************************************************************************)
(* Properties of withRetries.                                              *)
(***************************************************************************)

\* The codes the claims call retriable: 6, 10 and 500..599.
ClaimRetriable(out) ==
    ~out.ok /\ out.code # None /\ (out.code[1] \in {6, 10} \/ out.code[1] \in 500..599)

\* A failure of any other code, or without a code.
ClaimFatal(out) == ~out.ok /\ ~ClaimRetriable(out)

RetryEnded == rpc \in {"returned", "thrown"}

C6_RetriableAttemptedMaxPlusOne ==
    /\ <>RetryEnded
    /\ [](calls <= maxRetriesOf(cfg) + 1)
    /\ []((RetryEnded /\ \A k \in 1..Len(outcomes) : ClaimRetriable(outcomes[k])) =>
            /\ rpc = "thrown"
            /\ calls = maxRetriesOf(cfg) + 1
            /\ Len(outcomes) = calls
            /\ waits = maxRetriesOf(cfg))

\* Three retriable failures in a row with maxRetries = 2.
C6_Witness ==
    /\ rpc = "thrown"
    /\ cfg.maxRetries = Some(2)
    /\ Len(outcomes) = 3
    /\ \A k \in 1..3 : ClaimRetriable(outcomes[k])
    /\ calls = 3

\* The maxDelayMs of the policy passed to the call, as C18 reads it: the
\* caller's maxBackoffMs, the default when the caller sets none.
PolicyMaxDelay == IF cfg.maxBackoffMs # None THEN cfg.maxBackoffMs[1] ELSE DefaultMaxBackoffMs

\* Every invocation but the first follows one backoff wait, and wait
\* number k is that of attempt = k.
WaitsBetweenCalls ==
    /\ waits = attempt
    /\ calls = IF rpc = "sleeping" THEN waits ELSE waits + 1
    /\ (waits = 0 <=> delay = -1)

C19_ReturnsFirstSuccess ==
    /\ [](\A k \in 1..Len(outcomes) : outcomes[k].ok =>
             /\ k = Len(outcomes)
             /\ rpc = "returned"
             /\ retval = Some(outcomes[k].value))
    /\ [](rpc = "returned" =>
             /\ outcomes # <<>>
             /\ outcomes[Len(outcomes)].ok
             /\ \A k \in 1..(Len(outcomes) - 1) : ClaimRetriable(outcomes[k])
             /\ Len(outcomes) - 1 <= maxRetriesOf(cfg)
             /\ calls = Len(outcomes)
             /\ waits = Len(outcomes) - 1)
    /\ [](retval # None <=> rpc = "returned")
    /\ [][rpc = "returned" => UNCHANGED <<calls, outcomes, waits, retval, rpc>>]_vars

\* Two retriable failures, then a success whose value is returned after
\* three invocations.
C19_Witness ==
    /\ rpc = "returned"
    /\ cfg.maxRetries = Some(2)
    /\ Len(outcomes) = 3
    /\ ClaimRetriable(outcomes[1])
    /\ ClaimRetriable(outcomes[2])
    /\ outcomes[3] = [ok |-> TRUE, code |-> None, value |-> 2]
    /\ retval = Some(2)
    /\ calls = 3

(***************************************************************************)
(* Properties of pMap.                                                     *)
(***************************************************************************)

\* The items whose mapper has been invoked and whose finally callback has
\* not run yet.
InFlight == {k \in 1..nItems : wst[k] \in {"running", "fulfilled", "rejected"}}

\* C7: the number of workers started and not yet completed is pMap's
\* active counter, it never exceeds concurrency and is never negative.
C7_ActiveWithinConcurrency ==
    settled # "none" =>
        /\ active = Cardinality(InFlight)
        /\ active >= 0
        /\ active <= concurrency
        /\ concurrency >= 1

\* concurrency workers are in flight while items are still pending.
C7_Witness ==
    /\ nItems >= 3
    /\ concurrency = 2
    /\ active = 2
    /\ i < nItems
    /\ \E k \in 1..nItems : wst[k] = "done"

\* C8: provided every started worker completes, every item eventually has
\* its worker started, and no item's worker is ever started twice, also
\* when workers fail.
C8_EveryItemStartedOnce ==
    /\ <>(\A k \in 1..nItems : starts[k] = 1)
    /\ [](\A k \in 1..nItems : starts[k] <= 1)
    /\ [](\A k \in 1..nItems : (starts[k] = 0) <=> (wst[k] = "unstarted"))

\* Every item has been started once although an earlier worker failed
\* while later items were still unstarted.
C8_Witness ==
    /\ nItems >= 3
    /\ concurrency = 1
    /\ wst[1] = "done"
    /\ ~results[1]
    /\ \A k \in 1..nItems : starts[k] = 1

AllDone == \A k \in 1..nItems : wst[k] = "done"

C10_ReturnsSucceededCount ==
    /\ <>(dbpc = "returned")
    /\ [](dbpc # "thrown")
    /\ [](dbpc = "returned" =>
            /\ returnedOk = Cardinality(deleted)
            /\ processed = nItems
            /\ \A k \in 1..nItems : dcalls[k] >= 1 /\ wst[k] = "done")

\* Three ids, the second of which failed: 2 is returned.
C10_Witness ==
    /\ dbpc = "returned"
    /\ nItems = 3
    /\ deleted = {1, 3}
    /\ returnedOk = 2
    /\ dcalls[2] >= 1

(***************************************************************************)
(* Properties of attsHash and normalizeText.                               *)
(***************************************************************************)

\* C15: the signature of an attachment list equals that of every
\* permutation of the list; it is the empty string when ignore is set and
\* when the list is empty or absent.
C15_HashIgnoresOrder ==
    /\ (hashOfList # None /\ hashOfPerm # None) => hashOfList = hashOfPerm
    /\ (hashOfList # None /\ (ignoreFlag \/ attList = None \/ attList[1] = <<>>)) =>
          hashOfList = Some(<<>>)

\* Three different attachments and the list reversed give one non-empty
\* signature.
C15_Witness ==
    /\ attList # None
    /\ Len(attList[1]) = 3
    /\ Cardinality(Range(attList[1])) = 3
    /\ permuted[1] = <<attList[1][3], attList[1][2], attList[1][1]>>
    /\ ~ignoreFlag
    /\ hashOfList # None
    /\ hashOfList = hashOfPerm
    /\ hashOfList[1] # <<>>

\* C16: normalizing the result of normalizeText again returns it unchanged.
C16_NormalizeIdempotent ==
    twice # None => twice = once

\* A string with an upper-case letter and a line feed, which the first
\* call changes and the second leaves alone.
C16_Witness ==
    /\ twice # None
    /\ twice = once
    /\ once[1] # text
    /\ once[1] # <<>>
    /\ ChA \in Range(text)
    /\ NL \in Range(text)

(***************************************************************************)
(* Properties of a run of main.                                            *)
(***************************************************************************)

\* A deleteComment call has been issued.
DeleteIssued == \E k \in DOMAIN dcalls : dcalls[k] >= 1

\* deleteBatch has not been called.
NoDeleteBatch ==
    /\ dbpc = "idle"
    /\ settled = "none"
    /\ ~DeleteIssued
    /\ deleted = {}

\* C11: in a dry run no delete call is ever issued and deleteBatch is never
\* called; main does not go past the report of the plan: it prints the
\* plan's size and exits with code 0 in the same step.
C11_DryRunIssuesNoDelete ==
    opts.dryRun =>
        /\ NoDeleteBatch
        /\ mpc \notin {"deleting", "returned"}
        /\ (dryReport # None =>
               /\ exitCode = Some(0)
               /\ ppc = "done"
               /\ dryReport[1].count = Len(toDelete))
        /\ (exitCode = Some(0) => dryReport # None)

\* A dry run has reported a plan of at least one identifier and has ended.
C11_Witness ==
    /\ opts.dryRun
    /\ exitCode = Some(0)
    /\ dryReport # None
    /\ dryReport[1].head # <<>>
    /\ toDelete # <<>>
    /\ ~DeleteIssued

\* C12: a delete call is issued only once the planning pass has returned
\* (its last page request answered, the plan complete), and once a delete
\* call has been issued no page is requested and the plan does not change.
C12_DeletesAfterPlanning ==
    /\ [](DeleteIssued => ppc = "done" /\ nItems = Len(toDelete))
    /\ [][dcalls' # dcalls => ppc = "done" /\ ppc' = "done"]_vars
    /\ [][DeleteIssued => UNCHANGED <<fetches, pages, yielded, toDelete>>]_vars

\* Two pages were fetched, then a comment was deleted.
C12_Witness ==
    /\ Len(fetches) >= 2
    /\ ppc = "done"
    /\ deleted # {}
    /\ mpc = "returned"

\* A page request of iterAsc has failed for good: it is in fetches and no
\* page answers it.
PageFetchFailed == Len(fetches) > Len(pages)

\* The size query has failed for good.
TotalQueryFailed == mpc = "rejected" /\ total = -1 /\ ppc = "idle"

\* C13: when the size query or a page request has failed for good, no
\* delete call is issued then or later and nothing is reported; the failed
\* size query ends the process with code 1 at once; after the failed page
\* request the exit with code 1 is the step the program is about to take,
\* and the only steps that can come before it are those of a signal (the
\* handler, then the exit with code 130).
C13_FetchFailureAborts ==
    /\ []((PageFetchFailed \/ TotalQueryFailed) =>
            /\ NoDeleteBatch
            /\ exitCode \in {None, Some(1), Some(130)}
            /\ mpc \in {"planning", "rejected"}
            /\ dryReport = None)
    /\ [](TotalQueryFailed => exitCode = Some(1))
    /\ [](PageFetchFailed /\ Running => ENABLED PlanThrows)
    /\ []((PageFetchFailed \/ TotalQueryFailed) /\ ~Running /\ ~shuttingDown =>
            exitCode = Some(1))
    /\ [][PageFetchFailed /\ Running =>
             \/ exitCode' \in {Some(1), Some(130)}
             \/ (~shuttingDown /\ shuttingDown' /\ UNCHANGED <<planVars, mpc>>)]_vars

\* The second page request failed when the plan already held an
\* identifier; the run ended with code 1.
C13_Witness ==
    /\ PageFetchFailed
    /\ Len(fetches) = 2
    /\ toDelete # <<>>
    /\ exitCode = Some(1)
    /\ ~opts.dryRun
    /\ NoDeleteBatch

\* C14: once the signal handler has set shuttingDown, pMap starts no
\* further worker, no further deleteComment call is issued and iterAsc
\* requests no further page.
C14_NoNewWorkAfterSignal ==
    [][shuttingDown => UNCHANGED <<starts, dcalls, fetches>>]_vars

\* The positions of the last tl comments of the topic.
Window(tl) == { p \in 1..Len(thread) : p > Len(thread) - tl }

\* C20: in a tail scan the planning pass starts at
\* max(0, total - (tail + 1)), which is never negative; and when no comment
\* was posted since the size query, once the pass has returned every
\* comment among the last `tail` whose signature equals that of the comment
\* just before it in the topic is in the plan, the oldest of them included.
C20_TailScanCoversWindow ==
    (~opts.full /\ ppc # "idle") =>
        /\ total >= 0
        /\ startOffset = Max(0, total - (opts.tail + 1))
        /\ startOffset >= 0
        /\ (added = 0 => total = Len(thread))
        /\ ((ppc = "done" /\ added = 0) =>
              \A p \in Window(opts.tail) :
                  (p >= 2 /\ Sig(thread[p]) = Sig(thread[p - 1])) =>
                      thread[p].id \in Range(toDelete))

\* A tail scan of the last comment of a topic of three: the scan starts at
\* offset 1 and the last comment, whose signature equals that of the second
\* comment (the extra one), is planned.
C20_Witness ==
    /\ ~opts.full
    /\ opts.tail = 1
    /\ total = 3
    /\ added = 0
    /\ startOffset = 1
    /\ ppc = "done"
    /\ Len(yielded) = 2
    /\ toDelete = <<thread[3].id>>

====
